---- MODULE Spec2Model ----
(***************************************************************************)
(* The crawl-and-cache engine of ny_regulations_scraper.py                 *)
(* (NYRegulationsScraper) as a state machine: the in-memory crawl state of *)
(* one scraper process, the files it leaves on disk (page cache,           *)
(* progress.json, failed_urls.json), the web site it crawls, termination   *)
(* signals and the start of a later process on the same cache directory.   *)
(*                                                                         *)
(* URLs are numbers (base_url is 0); the markup of page u is Html(u).      *)
(* One step is the code between two blocking points of the process (an     *)
(* HTTP request, the end of a sleep), and holds at most one file write.    *)
(***************************************************************************)
EXTENDS Integers, Sequences, FiniteSets, TLC

VARIABLES
    site,             \* which web site is crawled: "web" or "chain"
    dead,             \* URLs whose every HTTP request fails
    flaky,            \* URLs whose HTTP requests and cache writes may fail
    max_pages,        \* the argument of scrape_all (None: no cap)
    cache,            \* disk: the cache record of each URL
    progress_file,    \* disk: progress.json
    failed_file,      \* disk: failed_urls.json
    run,              \* number of the scraper process, 1..MaxRuns
    pc,               \* where the process is
    call,             \* which call of get_page is in progress
    current_url,      \* the url argument of the get_page call in progress
    attempt,          \* the loop variable of get_page
    visited_urls,     \* self.visited_urls
    failed_urls,      \* self.failed_urls
    all_regulations,  \* self.all_regulations (url and content of each record)
    to_visit,         \* the deque of crawl_recursively
    scraped_count,    \* the local of crawl_recursively
    failed_copy,      \* retry_failed_urls: the copy of failed_urls it iterates
    retry_left,       \* retry_failed_urls: the URLs of failed_copy not yet iterated
    net,              \* observer: the URL requested over HTTP by the last step
    last_page,        \* observer: what get_page returned in the last step
    visited_at_start, \* observer: visited_urls when the process was built
    failed_at_start,  \* observer: failed_urls when the process was built
    net_fetched,      \* observer: URLs a get_page call of this process went to
                      \*           the network for while visited_urls held them
    http_count,       \* observer: HTTP requests of this process to each dead URL, per phase
    last_save,        \* observer: scraped_count at the last save_progress call
    slept,            \* observer: milliseconds slept at the end of the last step
    rested,           \* observer: the process has slept since its last HTTP request
    depth,            \* observer: the link depth at which each entry of to_visit was found
    cur_depth,        \* observer: the link depth of the URL last taken up by the loop
    text,             \* a URL or href as text, the argument of the URL functions
    out,              \* what the URL function applied to text returned
    regulations,      \* analyze_regulations_batch: the source_index of each input regulation
    batch_size,       \* analyze_regulations_batch: its batch_size argument
    batch_pc,         \* analyze_regulations_batch: where the coroutine is
    batch_start,      \* analyze_regulations_batch: the loop variable
    tasks,            \* the state of each analyze_regulation call of the current batch
    analyses,         \* what each finished call of the current batch returned
    results,          \* analyze_regulations_batch: the rows so far
    completed_count,  \* analyze_regulations_batch: the local counter
    output_file,      \* disk: the output CSV
    master,           \* fix_individual_files: the url of each regulation of the master file
    fix_pc,           \* fix_individual_files: where main is
    names,            \* what create_safe_filename returned in each iteration so far
    filename_conflicts, \* fix_individual_files: the keys of the dict of main
    output_dir,       \* disk: the file names in individual_regulations_fixed
    created_count,    \* fix_individual_files: the local counter
    failed_count,     \* fix_individual_files: the local counter
    caffeinate_ok,    \* full_pipeline: the caffeinate command can be started
    pl_pc,            \* run_full_pipeline: where it is
    pl_step,          \* run_full_pipeline: the number of the last step called
    step_log,         \* observer: how each step called so far ended
    caffeinate_proc,  \* self.caffeinate_proc: "none" or the Popen object
    child,            \* the caffeinate child process
    returned          \* what run_full_pipeline returned

env  == <<site, dead, flaky, max_pages>>
disk == <<cache, progress_file, failed_file>>
mem  == <<pc, call, current_url, attempt, visited_urls, failed_urls,
          all_regulations, to_visit, scraped_count, failed_copy, retry_left,
          slept>>
obs  == <<net, last_page, visited_at_start, failed_at_start, net_fetched,
          http_count, last_save, rested, depth, cur_depth>>
urlfun == <<text, out>>
analyzer == <<regulations, batch_size, batch_pc, batch_start, tasks, analyses,
              results, completed_count, output_file>>
fixer == <<master, fix_pc, names, filename_conflicts, output_dir, created_count,
           failed_count>>
pipeline == <<caffeinate_ok, pl_pc, pl_step, step_log, caffeinate_proc, child,
              returned>>
vars == <<env, disk, run, mem, obs, urlfun, analyzer, fixer, pipeline>>

---------------------------------------------------------------------------
(* Bounds of the model *)
MaxRuns == 2
MaxDead == 1
MaxFlaky == 1
MaxPagesCap == 2
MaxParts == 3
MaxRegulations == 7
MaxBatchSize == 3
MaxUrlLen == 2
MaxMaster == 2
ChainLen == 52

(* Program constants *)
None == -1
base_url == 0
max_retries == 3
save_interval == 50
save_every == 5
name_limit == 100
index_width == 6

---------------------------------------------------------------------------
(* The web site *)

Urls == IF site = "chain" THEN 0..ChainLen ELSE 0..3

\* the targets of the anchors of page u that pass the filters on the href
\* text, in page order
Anchors(u) ==
    IF site = "chain"
    THEN IF u < ChainLen THEN <<u + 1>> ELSE <<>>
    ELSE CASE u = 0 -> <<1, 2, 1>>
           [] u = 1 -> <<2, 3>>
           [] u = 2 -> <<1, 0>>
           [] OTHER -> <<>>

\* '/regulations/new-york/title-' in href
IsTitleHref(u) == IF site = "chain" THEN u = 1 ELSE u \in {1, 2}

Html(u) == 100 + u

Phases == {"seed", "drain", "retry"}

---------------------------------------------------------------------------
(* Helpers *)

Range(s) == {s[i] : i \in 1..Len(s)}

RECURSIVE SetToList(_)
\* list(a_set): some enumeration of the set
SetToList(S) ==
    IF S = {} THEN <<>>
    ELSE LET x == CHOOSE y \in S : \A z \in S : y <= z
         IN  <<x>> \o SetToList(S \ {x})

NoRecord == [kind |-> "absent", url |-> None, html |-> None]
CorruptRecord == [kind |-> "corrupt", url |-> None, html |-> None]
CacheRecord(u, h) == [kind |-> "ok", url |-> u, html |-> h]

NoProgressFile == [exists |-> FALSE, visited_urls |-> <<>>, total_scraped |-> 0]
NoFailedFile == [exists |-> FALSE, urls |-> <<>>]


NoData == [url |-> None, content |-> None]
NoOut == [op |-> "none"]
NoPage == [url |-> None, html |-> None, source |-> "none"]

\* the orders in which a directory listing can give the cache files of S;
\* for a large directory one order stands for all
ScanOrders(S) ==
    IF Cardinality(S) <= 4
    THEN {o \in [1..Cardinality(S) -> S] : \A i, j \in 1..Cardinality(S) : o[i] = o[j] => i = j}
    ELSE {SetToList(S)}

\* the memory of the process as one record, and its store into the variables
Mem == [pc |-> pc, call |-> call, current_url |-> current_url, attempt |-> attempt,
        visited_urls |-> visited_urls, failed_urls |-> failed_urls,
        all_regulations |-> all_regulations, to_visit |-> to_visit,
        scraped_count |-> scraped_count, failed_copy |-> failed_copy,
        retry_left |-> retry_left, slept |-> slept]

Store(m) ==
    /\ pc' = m.pc
    /\ call' = m.call
    /\ current_url' = m.current_url
    /\ attempt' = m.attempt
    /\ visited_urls' = m.visited_urls
    /\ failed_urls' = m.failed_urls
    /\ all_regulations' = m.all_regulations
    /\ to_visit' = m.to_visit
    /\ scraped_count' = m.scraped_count
    /\ failed_copy' = m.failed_copy
    /\ retry_left' = m.retry_left
    /\ slept' = m.slept
    /\ UNCHANGED <<urlfun, analyzer, fixer, pipeline>>

\* net_fetched after a step that leaves the process memory as m
fetched_after(m) ==
    IF pc # "http" /\ m.pc = "http" /\ m.current_url \in m.visited_urls
    THEN net_fetched \cup {m.current_url}
    ELSE net_fetched

\* rested after a step that leaves the process memory as m: a sleep at the
\* end of the step sets it, an HTTP request not followed by a sleep clears it
rested_after(m) ==
    IF m.slept > 0 THEN TRUE
    ELSE IF pc = "http" /\ m.pc # "exited" THEN FALSE
    ELSE rested

\* depth after a step that leaves the process memory as m: the seeds are
\* at depth 1, an entry appended by the loop is one deeper than the URL the
\* iteration took up, popleft drops the first
depth_after(m) ==
    IF Len(m.to_visit) < Len(to_visit) THEN Tail(depth)
    ELSE depth \o [i \in 1..(Len(m.to_visit) - Len(to_visit)) |->
                     IF pc \in {"links", "http"} /\ call # "seed"
                     THEN cur_depth + 1 ELSE 1]

\* cur_depth after a step that leaves the process memory as m
cur_depth_after(m) ==
    IF pc = "drain" /\ m.visited_urls # visited_urls THEN Head(depth) ELSE cur_depth

\* a step of the process that leaves its memory as m
Step(m) ==
    /\ Store(m)
    /\ net_fetched' = fetched_after(m)
    /\ rested' = rested_after(m)
    /\ depth' = depth_after(m)
    /\ cur_depth' = cur_depth_after(m)

---------------------------------------------------------------------------
(* The environment: HTTP and file-system outcomes *)

\* whether self.session.get(url) + raise_for_status can succeed
HttpOutcomes(u) ==
    IF u \in dead THEN {FALSE}
    ELSE IF u \in flaky THEN {TRUE, FALSE} ELSE {TRUE}

\* open(cache_path, 'w') + json.dump: written, not opened, or cut short
CacheWriteOutcomes(u) ==
    IF u \in flaky THEN {"ok", "nofile", "partial"} ELSE {"ok"}

\* the try block of save_progress: completes, or raises before writing
SaveOutcomes == {"ok", "fail"}

---------------------------------------------------------------------------
(* load_progress / save_progress *)

\* mutant: reads a key the file does not have, data.get('visited', [])
load_visited_wrong_key == {}

load_visited ==
    IF progress_file.exists THEN Range(progress_file.visited_urls) ELSE {}

load_failed ==
    IF failed_file.exists THEN Range(failed_file.urls) ELSE {}

\* the files after save_progress called with memory m and outcome o
saved_progress_file(m, o) ==
    IF o = "ok"
    THEN [exists |-> TRUE, visited_urls |-> SetToList(m.visited_urls),
          total_scraped |-> Len(m.all_regulations)]
    ELSE progress_file

\* mutant: save_progress writes progress.json only
saved_failed_file_not_written(m, o) == failed_file

saved_failed_file(m, o) ==
    IF o = "ok" /\ m.failed_urls # {}
    THEN [exists |-> TRUE, urls |-> SetToList(m.failed_urls)]
    ELSE failed_file

save_progress(m, o) ==
    /\ progress_file' = saved_progress_file(m, o)
    /\ failed_file' = saved_failed_file(m, o)
    /\ last_save' = m.scraped_count

---------------------------------------------------------------------------
(* get_page and the code that continues after it returns *)

\* the cache file exists and json.load reads it
CacheReadable(u) == cache[u].kind = "ok"

\* the anchors BeautifulSoup finds in markup h
Hrefs(h) == Anchors(h - 100)

scrape_regulation_content(u, h) ==
    IF h = None THEN NoData ELSE [url |-> u, content |-> h]

\* parse_main_page, given what get_page(base_url) returned
parse_main_page(m, h) ==
    IF h = None THEN <<>>
    ELSE LET keep(v) == IsTitleHref(v) /\ v \notin m.visited_urls
         IN  SelectSeq(Hrefs(h), keep)

find_regulation_links(m, h) ==
    LET keep(v) == v \notin m.visited_urls
    IN  SelectSeq(Hrefs(h), keep)

\* the first lines of crawl_recursively
crawl_recursively_enter(m, start_urls) ==
    [m EXCEPT !.to_visit = start_urls,
              !.scraped_count = Len(m.all_regulations),
              !.pc = "drain", !.call = "none", !.current_url = None]

\* scrape_all after parse_main_page got h from get_page
seed_return(m, h) ==
    LET title_links == parse_main_page(m, h)
    IN  IF title_links = <<>>
        THEN [m EXCEPT !.pc = "done", !.call = "none", !.current_url = None]
        ELSE crawl_recursively_enter(m, title_links)

\* crawl_recursively after scrape_regulation_content got h from get_page
drain_scrape_return(m, h) ==
    LET content_data == scrape_regulation_content(m.current_url, h)
    IN  IF content_data # NoData
        THEN [m EXCEPT !.all_regulations = Append(@, content_data),
                       !.scraped_count = @ + 1,
                       !.pc = "links", !.call = "none"]
        ELSE [m EXCEPT !.pc = "links", !.call = "none"]

\* crawl_recursively after its own get_page(current_url) returned h
drain_links_return(m, h) ==
    IF h # None
    THEN LET new_links == find_regulation_links(m, h)
             keep(v) == v \notin m.visited_urls /\ v \notin m.failed_urls
         IN  [m EXCEPT !.to_visit = @ \o SelectSeq(new_links, keep),
                       !.pc = "iter_end", !.call = "none"]
    ELSE [m EXCEPT !.pc = "iter_end", !.call = "none"]

\* retry_failed_urls after scrape_regulation_content got h from get_page
retry_return(m, h) ==
    LET content_data == scrape_regulation_content(m.current_url, h)
    IN  IF content_data # NoData
        THEN [m EXCEPT !.all_regulations = Append(@, content_data),
                       !.visited_urls = @ \cup {m.current_url},
                       !.pc = "retry", !.call = "none", !.current_url = None,
                       !.slept = 1000]
        ELSE [m EXCEPT !.failed_urls = @ \cup {m.current_url},
                       !.pc = "retry", !.call = "none", !.current_url = None,
                       !.slept = 1000]

\* get_page returns h to the call site m.call
Return(m, h) ==
    CASE m.call = "seed"   -> seed_return(m, h)
      [] m.call = "scrape" -> drain_scrape_return(m, h)
      [] m.call = "links"  -> drain_links_return(m, h)
      [] m.call = "retry"  -> retry_return(m, h)

\* mutant: get_page without the cache check of lines 72-78
get_page_no_cache_check(m, c, u) ==
    [m EXCEPT !.call = c, !.current_url = u, !.attempt = 0, !.pc = "http"]

\* get_page(u) called from call site c: the cache check
get_page_enter(m, c, u) ==
    LET m1 == [m EXCEPT !.call = c, !.current_url = u, !.attempt = 0]
    IN  IF CacheReadable(u)
        THEN Return(m1, cache[u].html)
        ELSE [m1 EXCEPT !.pc = "http"]

entered_page(u) ==
    IF CacheReadable(u)
    THEN [url |-> u, html |-> cache[u].html, source |-> "cache"]
    ELSE NoPage

\* mutant: exhaustion returns None without self.failed_urls.add(url)
get_page_failed_not_recorded(m) ==
    IF m.attempt < max_retries - 1
    THEN [m EXCEPT !.attempt = @ + 1, !.slept = 1000 * 2 ^ m.attempt]
    ELSE Return(m, None)

\* mutant: the backoff is time.sleep(2 ** (attempt + 1))
get_page_failed_longer_backoff(m) ==
    IF m.attempt < max_retries - 1
    THEN [m EXCEPT !.attempt = @ + 1, !.slept = 1000 * 2 ^ (m.attempt + 1)]
    ELSE Return([m EXCEPT !.failed_urls = @ \cup {m.current_url}], None)

\* get_page: the except branch of attempt m.attempt
get_page_failed(m) ==
    IF m.attempt < max_retries - 1
    THEN [m EXCEPT !.attempt = @ + 1, !.slept = 1000 * 2 ^ m.attempt]
    ELSE Return([m EXCEPT !.failed_urls = @ \cup {m.current_url}], None)

\* the cache record of u after get_page tried to write markup h
cache_written(u, h, w) ==
    CASE w = "ok"      -> CacheRecord(u, h)
      [] w = "partial" -> CorruptRecord
      [] w = "nofile"  -> cache[u]

PhaseOf(c) == IF c = "seed" THEN "seed" ELSE IF c = "retry" THEN "retry" ELSE "drain"

---------------------------------------------------------------------------
(* The initial state: the first process on an empty cache directory *)

NewProcess(vis, fail) ==
    [pc |-> "new", call |-> "none", current_url |-> None, attempt |-> 0,
     visited_urls |-> vis, failed_urls |-> fail, all_regulations |-> <<>>,
     to_visit |-> <<>>, scraped_count |-> 0, failed_copy |-> {}, retry_left |-> {},
     slept |-> 0]

NoRequests == [p \in Phases |-> [u \in Urls |-> 0]]

InitProcess ==
    /\ cache = [u \in Urls |-> NoRecord]
    /\ progress_file = NoProgressFile
    /\ failed_file = NoFailedFile
    /\ run = 1
    /\ pc = "new" /\ call = "none" /\ current_url = None /\ attempt = 0
    /\ visited_urls = {} /\ failed_urls = {} /\ all_regulations = <<>>
    /\ to_visit = <<>> /\ scraped_count = 0 /\ failed_copy = {} /\ retry_left = {}
    /\ slept = 0
    /\ net = None /\ last_page = NoPage
    /\ visited_at_start = {} /\ failed_at_start = {} /\ net_fetched = {}
    /\ http_count = NoRequests
    /\ last_save = None
    /\ rested = TRUE
    /\ depth = <<>> /\ cur_depth = 0
    /\ out = NoOut

NoCsv == [exists |-> FALSE, rows |-> <<>>]

\* analyze_regulations_batch has not been called
NotCalled ==
    /\ batch_pc = "idle" /\ batch_start = 0
    /\ tasks = <<>> /\ analyses = <<>>
    /\ results = <<>> /\ completed_count = 0
    /\ output_file = NoCsv

\* no analyzer process
NoAnalyzer ==
    /\ regulations = <<>> /\ batch_size = 1
    /\ NotCalled

\* run_full_pipeline has not been called
PipelineNotStarted ==
    /\ pl_pc = "idle" /\ pl_step = 0 /\ step_log = <<>>
    /\ caffeinate_proc = "none" /\ child = "none" /\ returned = "none"

\* no pipeline process
NoPipeline ==
    /\ caffeinate_ok = FALSE
    /\ PipelineNotStarted

\* main of fix_individual_files has not started
FixNotStarted ==
    /\ fix_pc = "idle"
    /\ names = <<>> /\ filename_conflicts = {}
    /\ created_count = 0 /\ failed_count = 0

\* no fix_individual_files process
NoFixer ==
    /\ master = <<>> /\ output_dir = {}
    /\ FixNotStarted

\* a small site with a cycle, a repeated link and a link back to the index
Init ==
    /\ site = "web"
    /\ dead \in {D \in SUBSET Urls : Cardinality(D) <= MaxDead}
    /\ flaky \in {F \in SUBSET (Urls \ dead) : Cardinality(F) <= MaxFlaky}
    /\ max_pages \in {None} \cup 1..MaxPagesCap
    /\ text = <<>>
    /\ InitProcess
    /\ NoAnalyzer
    /\ NoFixer
    /\ NoPipeline

\* a site that is one long chain of pages
InitChain ==
    /\ site = "chain"
    /\ dead \in {{}, {ChainLen}}
    /\ flaky = {save_interval}
    /\ max_pages \in {None, save_interval}
    /\ text = <<>>
    /\ InitProcess
    /\ NoAnalyzer
    /\ NoFixer
    /\ NoPipeline

---------------------------------------------------------------------------
(* The steps of a scraper process *)

M0 == [Mem EXCEPT !.slept = 0]

LoopCond ==
    /\ to_visit # <<>>
    /\ (max_pages = None \/ scraped_count < max_pages)

\* mutant: the period test is off by one
save_due_off_by_one(n) == (n + 1) % save_interval = 0

save_due(n) == n % save_interval = 0

\* mutant: the resume branch starts the crawl from the root page
resume_scan_from_root(m, order) ==
    crawl_recursively_enter(
        [m EXCEPT !.all_regulations =
            @ \o [i \in 1..Len(order) |->
                    scrape_regulation_content(cache[order[i]].url, cache[order[i]].html)]],
        <<base_url>>)

\* the resume branch of scrape_all: the records of the cache files, in the
\* order of the directory listing, then crawl_recursively([])
resume_scan(m, order) ==
    crawl_recursively_enter(
        [m EXCEPT !.all_regulations =
            @ \o [i \in 1..Len(order) |->
                    scrape_regulation_content(cache[order[i]].url, cache[order[i]].html)]],
        <<>>)

\* scrape_all up to its first HTTP request or to the head of the crawl loop
scrape_all ==
    /\ pc = "new"
    /\ IF visited_urls = {}
       THEN /\ Step(get_page_enter(M0, "seed", base_url))
            /\ last_page' = entered_page(base_url)
       ELSE \E order \in ScanOrders({u \in Urls : CacheReadable(u)}) :
            /\ Step(resume_scan(M0, order))
            /\ last_page' = IF order = <<>> THEN NoPage
                            ELSE entered_page(order[Len(order)])
    /\ net' = None
    /\ UNCHANGED <<env, disk, run, visited_at_start, failed_at_start, http_count, last_save>>

\* mutant: an exception of the cache write reaches the except branch of
\* the attempt
http_attempt_cache_write_fatal ==
    /\ pc = "http"
    /\ \E ok \in HttpOutcomes(current_url) :
        IF ok
        THEN \E w \in CacheWriteOutcomes(current_url) :
             /\ cache' = [cache EXCEPT ![current_url] =
                            cache_written(current_url, Html(current_url), w)]
             /\ IF w = "ok"
                THEN /\ Step(Return(M0, Html(current_url)))
                     /\ last_page' = [url |-> current_url, html |-> Html(current_url),
                                      source |-> "net"]
                ELSE /\ Step(get_page_failed(M0))
                     /\ last_page' = IF attempt < max_retries - 1 THEN NoPage
                                     ELSE [url |-> current_url, html |-> None,
                                           source |-> "failed"]
        ELSE /\ cache' = cache
             /\ Step(get_page_failed(M0))
             /\ last_page' = IF attempt < max_retries - 1 THEN NoPage
                             ELSE [url |-> current_url, html |-> None,
                                   source |-> "failed"]
    /\ net' = current_url
    /\ http_count' = IF current_url \in dead
                     THEN [http_count EXCEPT ![PhaseOf(call)][current_url] = @ + 1]
                     ELSE http_count
    /\ UNCHANGED <<env, progress_file, failed_file, run, visited_at_start, failed_at_start, last_save>>

\* one HTTP attempt of get_page: lines 81-103
http_attempt ==
    /\ pc = "http"
    /\ \E ok \in HttpOutcomes(current_url) :
        IF ok
        THEN \E w \in CacheWriteOutcomes(current_url) :
             /\ cache' = [cache EXCEPT ![current_url] =
                            cache_written(current_url, Html(current_url), w)]
             /\ Step(Return(M0, Html(current_url)))
             /\ last_page' = [url |-> current_url, html |-> Html(current_url),
                              source |-> "net"]
        ELSE /\ cache' = cache
             /\ Step(get_page_failed(M0))
             /\ last_page' = IF attempt < max_retries - 1 THEN NoPage
                             ELSE [url |-> current_url, html |-> None,
                                   source |-> "failed"]
    /\ net' = current_url
    /\ http_count' = IF current_url \in dead
                     THEN [http_count EXCEPT ![PhaseOf(call)][current_url] = @ + 1]
                     ELSE http_count
    /\ UNCHANGED <<env, progress_file, failed_file, run, visited_at_start, failed_at_start, last_save>>

\* mutant: the skip test of line 314 looks at failed_urls only
drain_pop_no_visited_check ==
    /\ pc = "drain"
    /\ LoopCond
    /\ LET u  == Head(to_visit)
           m1 == [M0 EXCEPT !.to_visit = Tail(@)]
       IN  IF u \in failed_urls
           THEN /\ Step(m1)
                /\ last_page' = NoPage
           ELSE /\ Step(get_page_enter(
                           [m1 EXCEPT !.visited_urls = @ \cup {u}], "scrape", u))
                /\ last_page' = entered_page(u)
    /\ net' = None
    /\ UNCHANGED <<env, disk, run, visited_at_start, failed_at_start, http_count, last_save>>

\* mutant: the loop takes the newest entry, to_visit.pop()
drain_pop_newest_first ==
    /\ pc = "drain"
    /\ LoopCond
    /\ LET u  == to_visit[Len(to_visit)]
           m1 == [M0 EXCEPT !.to_visit = SubSeq(@, 1, Len(@) - 1)]
       IN  IF u \in visited_urls \/ u \in failed_urls
           THEN /\ Step(m1)
                /\ last_page' = NoPage
           ELSE /\ Step(get_page_enter(
                           [m1 EXCEPT !.visited_urls = @ \cup {u}], "scrape", u))
                /\ last_page' = entered_page(u)
    /\ net' = None
    /\ UNCHANGED <<env, disk, run, visited_at_start, failed_at_start, http_count, last_save>>

\* crawl_recursively: lines 310-321, up to the first get_page of the iteration
drain_pop ==
    /\ pc = "drain"
    /\ LoopCond
    /\ LET u  == Head(to_visit)
           m1 == [M0 EXCEPT !.to_visit = Tail(@)]
       IN  IF u \in visited_urls \/ u \in failed_urls
           THEN /\ Step(m1)
                /\ last_page' = NoPage
           ELSE /\ Step(get_page_enter(
                           [m1 EXCEPT !.visited_urls = @ \cup {u}], "scrape", u))
                /\ last_page' = entered_page(u)
    /\ net' = None
    /\ UNCHANGED <<env, disk, run, visited_at_start, failed_at_start, http_count, last_save>>

\* crawl_recursively: line 327, the second get_page of the iteration
drain_links ==
    /\ pc = "links"
    /\ Step(get_page_enter(M0, "links", current_url))
    /\ last_page' = entered_page(current_url)
    /\ net' = None
    /\ UNCHANGED <<env, disk, run, visited_at_start, failed_at_start, http_count, last_save>>

\* mutant: save_progress has no try/except, a failed write ends the process
drain_iter_end_save_raises ==
    /\ pc = "iter_end"
    /\ IF save_due(scraped_count)
       THEN \E o \in SaveOutcomes :
               /\ save_progress(Mem, o)
               /\ IF o = "ok"
                  THEN Step([M0 EXCEPT !.pc = "drain", !.current_url = None,
                                       !.slept = 500])
                  ELSE Step([M0 EXCEPT !.pc = "exited"])
       ELSE /\ UNCHANGED <<progress_file, failed_file, last_save>>
            /\ Step([M0 EXCEPT !.pc = "drain", !.current_url = None, !.slept = 500])
    /\ net' = None
    /\ UNCHANGED <<env, cache, run, visited_at_start, failed_at_start, http_count>>
    /\ last_page' = NoPage

\* crawl_recursively: lines 338-344, the end of the iteration
drain_iter_end ==
    /\ pc = "iter_end"
    /\ IF save_due(scraped_count)
       THEN \E o \in SaveOutcomes : save_progress(Mem, o)
       ELSE UNCHANGED <<progress_file, failed_file, last_save>>
    /\ Step([M0 EXCEPT !.pc = "drain", !.current_url = None, !.slept = 500])
    /\ net' = None
    /\ UNCHANGED <<env, cache, run, visited_at_start, failed_at_start, http_count>>
    /\ last_page' = NoPage

\* mutant: the retrying phase iterates visited_urls as well as failed_urls
after_crawl_retry_visited(m) ==
    IF m.failed_urls # {}
    THEN [m EXCEPT !.failed_copy = m.failed_urls \cup m.visited_urls,
                   !.retry_left = m.failed_urls \cup m.visited_urls,
                   !.failed_urls = {}, !.pc = "retry"]
    ELSE [m EXCEPT !.pc = "done"]

\* scrape_all after crawl_recursively returned: lines 409-414, and the
\* first lines of retry_failed_urls
after_crawl(m) ==
    IF m.failed_urls # {}
    THEN [m EXCEPT !.failed_copy = m.failed_urls, !.retry_left = m.failed_urls,
                   !.failed_urls = {}, !.pc = "retry"]
    ELSE [m EXCEPT !.pc = "done"]

\* crawl_recursively: the loop ends, lines 346-348
crawl_exit ==
    /\ pc = "drain"
    /\ ~LoopCond
    /\ \E o \in SaveOutcomes : save_progress(Mem, o)
    /\ Step(after_crawl(M0))
    /\ net' = None
    /\ UNCHANGED <<env, cache, run, visited_at_start, failed_at_start, http_count>>
    /\ last_page' = NoPage

\* retry_failed_urls: the next url of failed_copy, up to its get_page
retry_next ==
    /\ pc = "retry"
    /\ \E u \in retry_left :
        /\ Step(get_page_enter([M0 EXCEPT !.retry_left = @ \ {u}], "retry", u))
        /\ last_page' = entered_page(u)
    /\ net' = None
    /\ UNCHANGED <<env, disk, run, visited_at_start, failed_at_start, http_count, last_save>>

\* retry_failed_urls returns and scrape_all returns all_data
retry_exit ==
    /\ pc = "retry"
    /\ retry_left = {}
    /\ Step([M0 EXCEPT !.pc = "done"])
    /\ net' = None
    /\ UNCHANGED <<env, disk, run, visited_at_start, failed_at_start, http_count, last_save>>
    /\ last_page' = NoPage

\* SIGINT or SIGTERM: the handler of full_pipeline.py stops caffeinate and
\* calls sys.exit(0); nothing on the way out writes a file
signal_handler ==
    /\ pc \notin {"done", "exited"}
    /\ Step([M0 EXCEPT !.pc = "exited"])
    /\ net' = None
    /\ UNCHANGED <<env, disk, run, visited_at_start, failed_at_start, http_count, last_save>>
    /\ last_page' = NoPage

\* a later process on the same cache directory: __init__ and load_progress
new_scraper ==
    /\ pc \in {"done", "exited"}
    /\ run < MaxRuns
    /\ run' = run + 1
    /\ Store(NewProcess(load_visited, load_failed))
    /\ visited_at_start' = load_visited
    /\ failed_at_start' = load_failed
    /\ net_fetched' = {}
    /\ net' = None
    /\ last_page' = NoPage
    /\ http_count' = NoRequests
    /\ last_save' = None
    /\ rested' = TRUE
    /\ depth' = <<>> /\ cur_depth' = 0
    /\ UNCHANGED <<env, disk>>

Next ==
    \/ scrape_all
    \/ http_attempt
    \/ drain_pop
    \/ drain_links
    \/ drain_iter_end
    \/ crawl_exit
    \/ retry_next
    \/ retry_exit
    \/ signal_handler
    \/ new_scraper

Spec == Init /\ [][Next]_vars

SpecChain == InitChain /\ [][Next]_vars

\* a step of the running scraper process, as opposed to a signal or the
\* start of a later process
ProcessStep ==
    \/ scrape_all
    \/ http_attempt
    \/ drain_pop
    \/ drain_links
    \/ drain_iter_end
    \/ crawl_exit
    \/ retry_next
    \/ retry_exit

\* the process is not stopped for ever between two of its steps: every
\* request returns or times out (timeout=30) and every sleep ends
SpecLive == Init /\ [][Next]_vars /\ WF_vars(ProcessStep)

---------------------------------------------------------------------------
(* URLs as text: classify_url and the link types of find_regulation_links *)

\* A text is a sequence of pieces. "/" and "-" are pieces of their own, so
\* that the substring tests of the code, whose patterns begin and end with
\* them, are tests on subsequences; no pattern occurs inside a piece.
SiteOrigin == "https://www.law.cornell.edu"
SitePath == "/regulations/new-york"

\* what the texts are put together from
Parts == {<<"/", "title", "-">>, <<"title", "-">>, <<"-", "NYCRR", "-">>,
          <<"NYCRR", "-">>, <<"/", "chapter", "-">>, <<"/", "part", "-">>,
          <<"/", "section", "-">>, <<"/", "app", "-">>, <<"/", "appendix">>,
          <<"/">>, <<"1">>, <<"#">>, <<"#", "1">>, <<SitePath>>, <<SiteOrigin>>}

RECURSIVE Concat(_)
Concat(ps) == IF ps = <<>> THEN <<>> ELSE Head(ps) \o Concat(Tail(ps))

\* the texts given to the URL functions; an origin only begins a text
Texts ==
    {Concat(ps) : ps \in UNION {{q \in [1..n -> Parts] :
                                   \A i \in 2..n : q[i] # <<SiteOrigin>>} :
                                n \in 0..MaxParts}}

\* p in s
Contains(s, p) ==
    \E i \in 1..(Len(s) - Len(p) + 1) : SubSeq(s, i, i + Len(p) - 1) = p

\* mutant: the test for '-NYCRR-' comes first
classify_url_nycrr_first(url) ==
    IF Contains(url, <<"-", "NYCRR", "-">>) THEN "regulation"
    ELSE IF Contains(url, <<"/", "title", "-">>) THEN "title"
    ELSE IF Contains(url, <<"/", "chapter", "-">>) THEN "chapter"
    ELSE IF Contains(url, <<"/", "part", "-">>) THEN "part"
    ELSE IF Contains(url, <<"/", "section", "-">>) THEN "section"
    ELSE IF Contains(url, <<"/", "app", "-">>) \/ Contains(url, <<"/", "appendix">>)
         THEN "appendix"
    ELSE "unknown"

classify_url(url) ==
    IF Contains(url, <<"/", "title", "-">>) THEN "title"
    ELSE IF Contains(url, <<"-", "NYCRR", "-">>) THEN "regulation"
    ELSE IF Contains(url, <<"/", "chapter", "-">>) THEN "chapter"
    ELSE IF Contains(url, <<"/", "part", "-">>) THEN "part"
    ELSE IF Contains(url, <<"/", "section", "-">>) THEN "section"
    ELSE IF Contains(url, <<"/", "app", "-">>) \/ Contains(url, <<"/", "appendix">>)
         THEN "appendix"
    ELSE "unknown"

\* mutant: the link type is classify_url of the href
link_type_fine(href) == classify_url(href)

\* find_regulation_links: the link type, from the text of the href
link_type(href) ==
    IF Contains(href, <<"/", "title", "-">>) THEN "title"
    ELSE IF Contains(href, <<"-", "NYCRR", "-">>) THEN "regulation"
    ELSE IF \/ Contains(href, <<"/", "chapter", "-">>)
            \/ Contains(href, <<"/", "part", "-">>)
            \/ Contains(href, <<"/", "section", "-">>)
         THEN "subsection"
    ELSE IF Contains(href, <<"/", "app", "-">>) \/ Contains(href, <<"/", "appendix">>)
         THEN "appendix"
    ELSE "unknown"

\* the page whose anchors are read: a title page of the site
PageUrl == <<SiteOrigin, SitePath, "/", "title", "-", "1">>

\* the text begins with the character '/'
BeginsWithSlash(t) == t # <<>> /\ t[1] \in {"/", SitePath}

\* the place of the last "/" of a text that has one
LastSlash(t) == CHOOSE i \in 1..Len(t) : t[i] = "/" /\ \A j \in (i + 1)..Len(t) : t[j] # "/"

\* urlunparse leaves out a fragment that is empty: a '#' that ends the
\* text and is its only '#'
DropEmptyFragment(t) ==
    IF t # <<>> /\ t[Len(t)] = "#" /\ ~Contains(SubSeq(t, 1, Len(t) - 1), <<"#">>)
    THEN SubSeq(t, 1, Len(t) - 1)
    ELSE t

RECURSIVE CollapseSlashes(_)
\* urljoin drops the empty segments of a merged path: '//' becomes '/'
CollapseSlashes(t) ==
    IF Len(t) < 2 THEN t
    ELSE IF t[1] = "/" /\ BeginsWithSlash(Tail(t)) THEN CollapseSlashes(Tail(t))
    ELSE <<t[1]>> \o CollapseSlashes(Tail(t))

\* urllib.parse.urljoin(base, href) for a base that is a page of the site
\* and an href made of Pieces that passed the skip test of the caller: an
\* absolute URL, a '//host' reference, an absolute path, or a relative path
\* merged with the directory of the base
urljoin(base, href) ==
    IF href = <<>> THEN base
    ELSE IF href[1] = SiteOrigin THEN DropEmptyFragment(href)
    ELSE IF Len(href) >= 2 /\ href[1] = "/" /\ BeginsWithSlash(Tail(href))
         THEN <<"https:">> \o href
    ELSE IF BeginsWithSlash(href) THEN <<SiteOrigin>> \o href
    ELSE CollapseSlashes(SubSeq(base, 1, LastSlash(base)) \o href)

\* find_regulation_links for a page with one anchor, which has a text and
\* whose target is not in visited: the candidates it returns
link_candidates(base, href) ==
    IF href = <<>> THEN <<>>
    ELSE IF Contains(href, <<"#">>) /\ ~Contains(href, <<SiteOrigin>>) THEN <<>>
    ELSE LET full_url == urljoin(base, href)
         IN  IF ~Contains(full_url, <<SiteOrigin, SitePath>>) THEN <<>>
             ELSE <<[url |-> full_url, type |-> link_type(href)]>>

InitUrl ==
    /\ site = "web" /\ dead = {} /\ flaky = {} /\ max_pages = None
    /\ text \in Texts
    /\ InitProcess
    /\ NoAnalyzer
    /\ NoFixer
    /\ NoPipeline

\* classify_url(text)
classify_url_call ==
    /\ out = NoOut
    /\ out' = [op |-> "classify_url", type |-> classify_url(text)]
    /\ UNCHANGED <<env, disk, run, mem, obs, text, analyzer, fixer, pipeline>>

\* find_regulation_links on a page whose one anchor has href = text
find_regulation_links_call ==
    /\ out = NoOut
    /\ out' = [op |-> "find_regulation_links", links |-> link_candidates(PageUrl, text)]
    /\ UNCHANGED <<env, disk, run, mem, obs, text, analyzer, fixer, pipeline>>

NextUrl ==
    \/ classify_url_call
    \/ find_regulation_links_call

SpecUrl == InitUrl /\ [][NextUrl]_vars

---------------------------------------------------------------------------
(* analyze_red_flags.py: analyze_regulations_batch                         *)
(* One step is the code between two suspension points of the event loop:   *)
(* the start of a task up to its request, the completion of a request, the *)
(* code after gather returns.                                              *)

\* the analysis analyze_regulation returns from its except branch
DefaultAnalysis ==
    [is_none |-> FALSE, has_implementation_issues |-> FALSE, red_flags |-> <<>>]

\* an analysis parsed from a response that reports one issue
FlaggedAnalysis ==
    [is_none |-> FALSE, has_implementation_issues |-> TRUE,
     red_flags |-> <<[severity |-> 1]>>]

\* None: the place of an analysis gather has not got yet, and the value of
\* message.parsed when the response holds a refusal and no analysis
NoAnalysis ==
    [is_none |-> TRUE, has_implementation_issues |-> FALSE, red_flags |-> <<>>]

\* what the request of analyze_regulation can end with: a response with a
\* parsed analysis, a response without one, an exception
ApiOutcomes == {"parsed", "refused", "error"}

\* analyze_regulation: message.parsed of the response, or the default
\* analysis when anything inside the try raises
analyze_regulation(outcome) ==
    CASE outcome = "parsed"  -> FlaggedAnalysis
      [] outcome = "refused" -> NoAnalysis
      [] outcome = "error"   -> DefaultAnalysis

RECURSIVE MaxSeverity(_)
\* max([flag.severity for flag in red_flags], default=0)
MaxSeverity(flags) ==
    IF flags = <<>> THEN 0
    ELSE LET rest == MaxSeverity(Tail(flags))
         IN  IF Head(flags).severity > rest THEN Head(flags).severity ELSE rest

\* the row of one regulation and its analysis
Row(regulation, analysis) ==
    [source_index |-> regulation,
     has_implementation_issues |-> analysis.has_implementation_issues,
     max_severity |-> MaxSeverity(analysis.red_flags),
     num_flags |-> Len(analysis.red_flags)]

\* mutant: the batch is all that is left of the input
batch_rest(regs, start, size) ==
    SubSeq(regs, start + 1, Len(regs))

\* regulations[batch_start:batch_start + batch_size]
batch(regs, start, size) ==
    SubSeq(regs, start + 1, IF start + size < Len(regs) THEN start + size ELSE Len(regs))

\* completed_count % 5 == 0 or batch_start + batch_size >= len(regulations)
save_condition(count, start, size, n) ==
    \/ count % save_every = 0
    \/ start + size >= n

InitBatch ==
    /\ site = "web" /\ dead = {} /\ flaky = {} /\ max_pages = None
    /\ text = <<>>
    /\ InitProcess
    /\ regulations \in {[i \in 1..n |-> i] : n \in 0..MaxRegulations}
    /\ batch_size \in 1..MaxBatchSize
    /\ NotCalled
    /\ NoFixer
    /\ NoPipeline

\* the call: the lines before the loop
analyze_regulations_batch ==
    /\ batch_pc = "idle"
    /\ batch_pc' = "loop"
    /\ results' = <<>>
    /\ completed_count' = 0
    /\ batch_start' = 0
    /\ UNCHANGED <<regulations, batch_size, tasks, analyses, output_file>>
    /\ UNCHANGED <<env, disk, run, mem, obs, urlfun, fixer, pipeline>>

\* one more iteration of the loop: the coroutines of the batch are made
\* and gather is awaited
batch_begin ==
    /\ batch_pc = "loop"
    /\ batch_start < Len(regulations)
    /\ LET b == batch(regulations, batch_start, batch_size)
       IN  /\ tasks' = [i \in 1..Len(b) |-> "pending"]
           /\ analyses' = [i \in 1..Len(b) |-> NoAnalysis]
    /\ batch_pc' = "gather"
    /\ UNCHANGED <<regulations, batch_size, batch_start, results, completed_count, output_file>>
    /\ UNCHANGED <<env, disk, run, mem, obs, urlfun, fixer, pipeline>>

\* the event loop starts the next task of gather, which runs up to its
\* request
task_start ==
    /\ batch_pc = "gather"
    /\ \E i \in 1..Len(tasks) :
        /\ tasks[i] = "pending"
        /\ \A j \in 1..(i - 1) : tasks[j] # "pending"
        /\ tasks' = [tasks EXCEPT ![i] = "running"]
    /\ UNCHANGED <<regulations, batch_size, batch_pc, batch_start, analyses, results,
                   completed_count, output_file>>
    /\ UNCHANGED <<env, disk, run, mem, obs, urlfun, fixer, pipeline>>

\* the request of one running task ends, with a response or an exception
task_complete ==
    /\ batch_pc = "gather"
    /\ \E i \in 1..Len(tasks), outcome \in ApiOutcomes :
        /\ tasks[i] = "running"
        /\ tasks' = [tasks EXCEPT ![i] = "done"]
        /\ analyses' = [analyses EXCEPT ![i] = analyze_regulation(outcome)]
    /\ UNCHANGED <<regulations, batch_size, batch_pc, batch_start, results,
                   completed_count, output_file>>
    /\ UNCHANGED <<env, disk, run, mem, obs, urlfun, fixer, pipeline>>

\* gather returns: the rows of the batch, the save test, the next
\* batch_start. analysis.red_flags raises AttributeError on None: the rows
\* before it are in results and the exception leaves the coroutine
batch_end ==
    /\ batch_pc = "gather"
    /\ \A i \in 1..Len(tasks) : tasks[i] = "done"
    /\ LET b == batch(regulations, batch_start, batch_size)
           nones == {i \in 1..Len(b) : analyses[i].is_none}
           good == IF nones = {} THEN Len(b)
                   ELSE (CHOOSE i \in nones : \A j \in nones : i <= j) - 1
           rows == results \o [i \in 1..good |-> Row(b[i], analyses[i])]
           count == completed_count + good
       IN  /\ results' = rows
           /\ completed_count' = count
           /\ IF nones = {}
              THEN /\ output_file' =
                        IF save_condition(count, batch_start, batch_size, Len(regulations))
                        THEN [exists |-> TRUE, rows |-> rows]
                        ELSE output_file
                   /\ batch_start' = batch_start + batch_size
                   /\ batch_pc' = "loop"
              ELSE /\ output_file' = output_file
                   /\ batch_start' = batch_start
                   /\ batch_pc' = "raised"
    /\ tasks' = <<>>
    /\ analyses' = <<>>
    /\ UNCHANGED <<regulations, batch_size>>
    /\ UNCHANGED <<env, disk, run, mem, obs, urlfun, fixer, pipeline>>

\* the loop is over: return pd.DataFrame(results)
batch_return ==
    /\ batch_pc = "loop"
    /\ batch_start >= Len(regulations)
    /\ batch_pc' = "returned"
    /\ UNCHANGED <<regulations, batch_size, batch_start, tasks, analyses, results,
                   completed_count, output_file>>
    /\ UNCHANGED <<env, disk, run, mem, obs, urlfun, fixer, pipeline>>

NextBatch ==
    \/ analyze_regulations_batch
    \/ batch_begin
    \/ task_start
    \/ task_complete
    \/ batch_end
    \/ batch_return

SpecBatch == InitBatch /\ [][NextBatch]_vars

---------------------------------------------------------------------------
(* fix_individual_files.py: create_safe_filename and main                  *)
(* A URL and a file name are sequences of characters.                      *)

\* the characters of the URLs of the master file: a separator, a word
\* character and a character that is neither a word character, '-' nor '.'
FileChars == {"/", "a", "#"}

\* the characters the first re.sub keeps: \w, '-' and '.'
KeptChars == {"a", "_", "-", ".", "0", "1", "2", "3", "4", "5", "6", "7", "8", "9"}

RECURSIVE StringsOfLen(_)
StringsOfLen(n) ==
    IF n = 0 THEN {<<>>}
    ELSE {Append(s, c) : s \in StringsOfLen(n - 1), c \in FileChars}

\* two URLs without a separator that differ only after the length limit
LongUrls ==
    {[i \in 1..(name_limit + 1) |-> IF i <= name_limit THEN "a" ELSE c] : c \in {"a", "-"}}

MasterUrls == UNION {StringsOfLen(n) : n \in 0..MaxUrlLen} \cup LongUrls

\* url.split('/')[-1] if '/' in url else url
url_part(url) ==
    LET slashes == {i \in 1..Len(url) : url[i] = "/"}
    IN  IF slashes = {} THEN url
        ELSE SubSeq(url, (CHOOSE i \in slashes : \A j \in slashes : j <= i) + 1, Len(url))

\* re.sub(r'[^\w\-\.]', '_', t)
ReplaceUnsafe(t) == [i \in 1..Len(t) |-> IF t[i] \in KeptChars THEN t[i] ELSE "_"]

RECURSIVE CollapseUnderscores(_)
\* re.sub(r'_+', '_', t): every run of '_' becomes one '_'; the two halves
\* of the text are collapsed and joined
CollapseUnderscores(t) ==
    IF Len(t) < 2 THEN t
    ELSE LET half  == Len(t) \div 2
             left  == CollapseUnderscores(SubSeq(t, 1, half))
             right == CollapseUnderscores(SubSeq(t, half + 1, Len(t)))
         IN  IF left[Len(left)] = "_" /\ right[1] = "_"
             THEN left \o Tail(right)
             ELSE left \o right

\* t.strip('_')
StripUnderscores(t) ==
    LET others == {i \in 1..Len(t) : t[i] # "_"}
    IN  IF others = {} THEN <<>>
        ELSE SubSeq(t, CHOOSE i \in others : \A j \in others : i <= j,
                       CHOOSE i \in others : \A j \in others : j <= i)

\* clean_name[:100] when it is longer
Truncate(t) == IF Len(t) > name_limit THEN SubSeq(t, 1, name_limit) ELSE t

clean_name(url) ==
    Truncate(StripUnderscores(CollapseUnderscores(ReplaceUnsafe(url_part(url)))))

RECURSIVE Decimal(_)
\* the decimal digits of a natural number
Decimal(n) ==
    LET digit == <<"0", "1", "2", "3", "4", "5", "6", "7", "8", "9">>[(n % 10) + 1]
    IN  IF n < 10 THEN <<digit>> ELSE Append(Decimal(n \div 10), digit)

\* f"{index:06d}"
PaddedIndex(index) ==
    LET d == Decimal(index)
    IN  IF Len(d) >= index_width THEN d
        ELSE [k \in 1..(index_width - Len(d)) |-> "0"] \o d

\* mutant: the file name is made of the cleaned URL part alone
create_safe_filename_no_index(url, index) ==
    clean_name(url) \o <<".json">>

create_safe_filename(url, index) ==
    PaddedIndex(index) \o <<"_">> \o clean_name(url) \o <<".json">>

\* the first 8 hex digits of md5(url), kept symbolic: a name no other URL
\* and no cleaned name gives
Md5Prefix(url) == <<"md5(">> \o url \o <<")">>

\* the file name main uses in iteration index, given the keys of
\* filename_conflicts
chosen_filename(url, index, conflicts) ==
    IF create_safe_filename(url, index) \in conflicts
    THEN PaddedIndex(index) \o <<"_">> \o Md5Prefix(url) \o <<".json">>
    ELSE create_safe_filename(url, index)

\* a file an earlier run left in the output directory
OldFile == <<"old", ".json">>

InitFix ==
    /\ site = "web" /\ dead = {} /\ flaky = {} /\ max_pages = None
    /\ text = <<>>
    /\ InitProcess
    /\ NoAnalyzer
    /\ master \in UNION {[1..n -> MasterUrls] : n \in 0..MaxMaster}
    /\ output_dir \in {{}, {OldFile}}
    /\ FixNotStarted
    /\ NoPipeline

\* main up to the loop: the master file is loaded, the output directory is
\* removed and made anew
fix_main ==
    /\ fix_pc = "idle"
    /\ fix_pc' = "loop"
    /\ output_dir' = {}
    /\ names' = <<>>
    /\ filename_conflicts' = {}
    /\ created_count' = 0
    /\ failed_count' = 0
    /\ UNCHANGED master
    /\ UNCHANGED <<env, disk, run, mem, obs, urlfun, analyzer, pipeline>>

\* one iteration of the loop of main; the write succeeds or raises
fix_iteration ==
    /\ fix_pc = "loop"
    /\ Len(names) < Len(master)
    /\ LET index == Len(names)
           url == master[index + 1]
           filename == chosen_filename(url, index, filename_conflicts)
       IN  /\ names' = Append(names, create_safe_filename(url, index))
           /\ filename_conflicts' = filename_conflicts \cup {filename}
           /\ \E written \in BOOLEAN :
                IF written
                THEN /\ output_dir' = output_dir \cup {filename}
                     /\ created_count' = created_count + 1
                     /\ failed_count' = failed_count
                ELSE /\ output_dir' = output_dir
                     /\ created_count' = created_count
                     /\ failed_count' = failed_count + 1
    /\ UNCHANGED <<master, fix_pc>>
    /\ UNCHANGED <<env, disk, run, mem, obs, urlfun, analyzer, pipeline>>

\* the loop is over: the report and the return
fix_return ==
    /\ fix_pc = "loop"
    /\ Len(names) = Len(master)
    /\ fix_pc' = "done"
    /\ UNCHANGED <<master, names, filename_conflicts, output_dir, created_count, failed_count>>
    /\ UNCHANGED <<env, disk, run, mem, obs, urlfun, analyzer, pipeline>>

NextFix ==
    \/ fix_main
    \/ fix_iteration
    \/ fix_return

SpecFix == InitFix /\ [][NextFix]_vars

---------------------------------------------------------------------------
(* full_pipeline.py: FullPipeline.run_full_pipeline                        *)
(* A signal can be handled between any two steps once the handlers are     *)
(* installed, also between the start of the caffeinate child and the       *)
(* assignment of its Popen object to self.caffeinate_proc.                 *)

\* the steps of the pipeline: scrape, clean, individual files
LastStep == 3

\* how a step can end: a truthy result, a falsy result, an exception that
\* is an Exception, KeyboardInterrupt
StepOutcomes == {"ok", "falsy", "raise", "keyboard_interrupt"}

\* what stop_caffeinate leaves of a running child: terminate() and wait(),
\* or kill() when one of them raises
StopOutcomes == {"terminated", "killed"}

\* the child after stop_caffeinate, with outcome o of a stop that is tried
stop_caffeinate(proc, c, o) ==
    IF proc # "none" /\ c = "running" THEN o ELSE c

InitPipeline ==
    /\ site = "web" /\ dead = {} /\ flaky = {}
    /\ max_pages \in {None} \cup 1..MaxPagesCap
    /\ text = <<>>
    /\ InitProcess
    /\ NoAnalyzer
    /\ NoFixer
    /\ caffeinate_ok \in BOOLEAN
    /\ PipelineNotStarted

\* run_full_pipeline up to start_caffeinate: the handlers are installed
run_full_pipeline ==
    /\ pl_pc = "idle"
    /\ pl_pc' = "start_caffeinate"
    /\ UNCHANGED <<caffeinate_ok, pl_step, step_log, caffeinate_proc, child, returned>>
    /\ UNCHANGED <<env, disk, run, mem, obs, urlfun, analyzer, fixer>>

\* start_caffeinate: subprocess.Popen starts the child, or raises and the
\* except branch prints a warning
popen ==
    /\ pl_pc = "start_caffeinate"
    /\ IF caffeinate_ok
       THEN /\ child' = "running"
            /\ pl_pc' = "spawned"
       ELSE /\ child' = child
            /\ pl_pc' = "try"
    /\ UNCHANGED <<caffeinate_ok, pl_step, step_log, caffeinate_proc, returned>>
    /\ UNCHANGED <<env, disk, run, mem, obs, urlfun, analyzer, fixer>>

\* start_caffeinate: Popen returns and self.caffeinate_proc is assigned
popen_return ==
    /\ pl_pc = "spawned"
    /\ caffeinate_proc' = "proc"
    /\ pl_pc' = "try"
    /\ UNCHANGED <<caffeinate_ok, pl_step, step_log, child, returned>>
    /\ UNCHANGED <<env, disk, run, mem, obs, urlfun, analyzer, fixer>>

\* inside the try: the next step is called
step_call ==
    /\ pl_pc = "try"
    /\ pl_step < LastStep
    /\ pl_step' = pl_step + 1
    /\ step_log' = Append(step_log, "running")
    /\ pl_pc' = "step"
    /\ UNCHANGED <<caffeinate_ok, caffeinate_proc, child, returned>>
    /\ UNCHANGED <<env, disk, run, mem, obs, urlfun, analyzer, fixer>>

\* the step in progress ends; unless it was truthy and a step is left, the
\* function returns through the finally clause
step_return ==
    /\ pl_pc = "step"
    /\ \E outcome \in StepOutcomes, o \in StopOutcomes :
        /\ step_log' = [step_log EXCEPT ![pl_step] = outcome]
        /\ IF outcome = "ok" /\ pl_step < LastStep
           THEN /\ pl_pc' = "try"
                /\ UNCHANGED <<child, returned>>
           ELSE /\ pl_pc' = "returned"
                /\ child' = stop_caffeinate(caffeinate_proc, child, o)
                /\ returned' = IF outcome = "ok" THEN "True" ELSE "False"
    /\ UNCHANGED <<caffeinate_ok, pl_step, caffeinate_proc>>
    /\ UNCHANGED <<env, disk, run, mem, obs, urlfun, analyzer, fixer>>

\* SIGINT or SIGTERM: the handler calls stop_caffeinate and sys.exit(0);
\* SystemExit passes the finally clause when it is raised inside the try
pipeline_signal ==
    /\ pl_pc \in {"start_caffeinate", "spawned", "try", "step"}
    /\ \E o \in StopOutcomes :
        child' = stop_caffeinate(caffeinate_proc, child, o)
    /\ pl_pc' = "exited"
    /\ UNCHANGED <<caffeinate_ok, pl_step, step_log, caffeinate_proc, returned>>
    /\ UNCHANGED <<env, disk, run, mem, obs, urlfun, analyzer, fixer>>

NextPipeline ==
    \/ run_full_pipeline
    \/ popen
    \/ popen_return
    \/ step_call
    \/ step_return
    \/ pipeline_signal

SpecPipeline == InitPipeline /\ [][NextPipeline]_vars

---------------------------------------------------------------------------
(* The claims *)

RecordUrls == {all_regulations[i].url : i \in 1..Len(all_regulations)}

\* C1: when the run ends, every URL whose every HTTP request fails and that
\* the draining phase requested has received exactly 3 HTTP attempts in the
\* draining phase and exactly 1 in the retrying phase, and is in failed.
C1_RetryBudget ==
    pc = "done" =>
        \A u \in dead :
            http_count["drain"][u] > 0 =>
                /\ http_count["drain"][u] = 3
                /\ http_count["retry"][u] = 1
                /\ u \in failed_urls

\* the step calls get_page(u) from one of its call sites
GetPageCalled(u) ==
    \/ pc = "new" /\ visited_urls = {} /\ u = base_url
    \/ /\ pc = "drain" /\ LoopCond /\ u = Head(to_visit)
       /\ u \notin visited_urls /\ u \notin failed_urls
    \/ pc = "links" /\ u = current_url
    \/ pc = "retry" /\ u \in retry_left /\ u \notin retry_left'

\* C2: no HTTP request is issued for a URL that has a readable cache record,
\* and a get_page call for such a URL returns the cached markup in the same
\* step: no request, no attempt counted, no backoff, cache left as it is.
C2_CacheHitNoNetwork ==
    [][\A u \in Urls :
        /\ net' = u => ~CacheReadable(u)
        /\ (GetPageCalled(u) /\ CacheReadable(u) /\ pc' # "exited") =>
              /\ net' = None
              /\ pc' # "http"
              /\ attempt' = 0
              /\ slept' = IF pc = "retry" THEN 1000 ELSE 0
              /\ last_page' = [url |-> u, html |-> cache[u].html, source |-> "cache"]
              /\ cache' = cache
              /\ http_count' = http_count]_vars

\* C2 witness: the second get_page of a draining iteration was served from
\* the record the first one wrote
C2_Witness ==
    /\ pc = "iter_end"
    /\ last_page = [url |-> current_url, html |-> Html(current_url), source |-> "cache"]

\* C3 as stated: in a resumed run no HTTP request is issued for a URL that
\* was in visited at startup.
C3_NoRefetchOfVisited ==
    (visited_at_start # {} /\ net # None) => net \notin visited_at_start

\* C3 amended: in a resumed run an HTTP request for a URL that was in
\* visited at startup is issued only if the URL was also in the failed set
\* loaded at startup.
C3_RefetchOnlyFailed ==
    (visited_at_start # {} /\ net \in visited_at_start) => net \in failed_at_start

\* C3 witness: a resumed run issues an HTTP request for a URL that was in
\* visited at startup, while another URL visited at startup has no cache
\* record and was not in failed
C3_Witness ==
    /\ visited_at_start # {}
    /\ net \in visited_at_start
    /\ \E u \in visited_at_start \ failed_at_start : ~CacheReadable(u) /\ u # net

\* C4: when scrape_all returns, all_regulations holds at most one record
\* per URL.
C4_OneRecordPerUrl ==
    pc = "done" =>
        \A i, j \in 1..Len(all_regulations) :
            all_regulations[i].url = all_regulations[j].url => i = j

\* C5: once a URL is in visited, at most one get_page call for it in that
\* run goes to the network.
C5_OneNetworkFetch ==
    [][(pc # "http" /\ pc' = "http" /\ current_url' \in visited_urls')
          => current_url' \notin net_fetched]_vars

\* C6: when a signal ends the process, the persisted visited set equals the
\* in-memory visited set at the moment of the signal.
C6_SignalFlushes ==
    pc = "exited" => load_visited = visited_urls

\* C7: when scrape_all returns, the persisted visited and failed sets equal
\* the in-memory sets.
C7_FinalCheckpoint ==
    pc = "done" => (load_visited = visited_urls /\ load_failed = failed_urls)

\* C8: at the head of the draining loop of a crawl that started from the
\* seeds, when the number of scraped pages is a positive multiple of 50,
\* save_progress has been invoked with that number: the iteration that
\* reached it called save_progress before the next URL is dequeued.
C8_SaveEvery50 ==
    (pc = "drain" /\ visited_at_start = {} /\ scraped_count > 0
        /\ scraped_count % save_interval = 0)
      => last_save = scraped_count

\* C8 witness: the 50th page has been scraped and the loop goes on
C8_Witness ==
    /\ pc = "drain" /\ visited_at_start = {}
    /\ scraped_count = save_interval
    /\ LoopCond

\* C9: a checkpoint records the visited set of the moment; a new scraper
\* starts from the recorded set; no step of a scraper removes a URL from
\* visited, so its visited set stays a superset of the loaded checkpoint.
C9_VisitedOnlyGrows ==
    /\ [](visited_at_start \subseteq visited_urls)
    /\ [][/\ progress_file' # progress_file
             => Range(progress_file'.visited_urls) = visited_urls
          /\ IF run' # run
             THEN /\ visited_urls' = Range(progress_file.visited_urls)
                  /\ visited_at_start' = visited_urls'
             ELSE visited_urls \subseteq visited_urls']_vars

\* C9 witness: a scraper that loaded a checkpoint ran scrape_all to the end
C9_Witness ==
    /\ run > 1 /\ pc = "done"
    /\ visited_at_start # {}
    /\ visited_at_start = Range(progress_file.visited_urls)
    /\ failed_copy # {}

\* C10: every URL in failed at the start of the retrying phase gets exactly
\* one HTTP attempt; one whose retry succeeds is in visited, not in failed
\* and has a record; after the phase failed holds only retried URLs.
C10_RetryPhase ==
    /\ ~(pc = "http" /\ call = "retry" /\ attempt > 0)
    /\ (pc = "done" /\ failed_copy # {}) =>
          /\ \A u \in failed_copy \cap dead : http_count["retry"][u] = 1
          /\ \A u \in failed_copy \ failed_urls :
                u \in visited_urls /\ u \in RecordUrls
          /\ failed_urls \subseteq failed_copy

\* the step is the last HTTP attempt of a get_page call and it fails
Exhausted ==
    /\ pc = "http"
    /\ net' = current_url
    /\ last_page'.source = "failed"

\* what every exhausted get_page call does: the URL joins failed, the
\* caller gets None, no record is appended
ExhaustedEffect ==
    /\ (pc = "http" /\ attempt = max_retries - 1 /\ current_url \in dead
          /\ net' = current_url) => Exhausted
    /\ Exhausted =>
          /\ attempt = max_retries - 1
          /\ current_url \in failed_urls'
          /\ last_page' = [url |-> current_url, html |-> None, source |-> "failed"]
          /\ all_regulations' = all_regulations
          /\ cache' = cache

FailedAttempt ==
    /\ pc = "http"
    /\ net' = current_url
    /\ last_page'.source # "net"

\* C12 as stated: every failed attempt number k = 0, 1, 2 of a get_page call
\* is followed by a backoff sleep of 2^k seconds.
C12_BackoffAfterEveryFailure ==
    [][FailedAttempt => slept' = 1000 * 2 ^ attempt]_vars

\* C12 amended: failed attempt number k is followed by a backoff sleep of
\* 2^k seconds and by attempt k + 1 when k < 2 (1 s, then 2 s); the last
\* failed attempt, k = 2, is followed by no backoff sleep: get_page returns
\* at once, and the only sleep that can follow is the fixed 1 s of the
\* retrying loop.
C12_BackoffBetweenAttempts ==
    [][FailedAttempt =>
         IF attempt < max_retries - 1
         THEN /\ slept' = 1000 * 2 ^ attempt
              /\ pc' = "http" /\ attempt' = attempt + 1
              /\ current_url' = current_url
         ELSE /\ slept' = IF call = "retry" THEN 1000 ELSE 0
              /\ pc' # "http"]_vars

\* C12 witness: the third attempt of a get_page call is about to be made,
\* after the backoff of 2 s
C12_Witness ==
    /\ pc = "http"
    /\ attempt = max_retries - 1
    /\ slept = 2000

\* C13: whenever the process is about to issue an HTTP request, it has
\* slept (backoff or fixed delay) since its previous HTTP request.
C13_SleepBetweenRequests ==
    pc = "http" => rested

\* C14: a step of the draining loop that appends child links to the
\* frontier belongs to an iteration that built a record for the dequeued
\* URL: the last record of all_regulations is the one of current_url.
C14_ChildrenOnlyAfterRecord ==
    [][(pc \in {"links", "http"} /\ pc' = "iter_end" /\ to_visit' # to_visit) =>
          /\ all_regulations # <<>>
          /\ all_regulations[Len(all_regulations)].url = current_url]_vars

\* C15: when the URL at the front of the frontier is in visited or in
\* failed, the step that dequeues it does nothing else: no HTTP request,
\* no get_page call (so no cache access), no record, no change to visited,
\* failed, the files or the rest of the frontier.
C15_SkipKnownUrl ==
    [][(/\ pc = "drain" /\ LoopCond
        /\ (Head(to_visit) \in visited_urls \/ Head(to_visit) \in failed_urls)
        /\ pc' # "exited") =>
          /\ pc' = "drain"
          /\ to_visit' = Tail(to_visit)
          /\ net' = None /\ call' = "none" /\ last_page' = NoPage
          /\ all_regulations' = all_regulations
          /\ scraped_count' = scraped_count
          /\ visited_urls' = visited_urls
          /\ failed_urls' = failed_urls
          /\ UNCHANGED <<disk, http_count>>]_vars

\* C15 witness: in a fresh crawl the last step skipped a dequeued URL (the
\* loop is at its head with URLs visited and without the sleep that ends an
\* iteration)
C15_Witness ==
    /\ pc = "drain"
    /\ visited_at_start = {} /\ visited_urls # {}
    /\ slept = 0
    /\ to_visit # <<>>

\* C16: the frontier is a FIFO queue: a step removes its first entry, or
\* appends entries at its back, or leaves it alone; the URL an iteration
\* takes up is the entry that was at the front. Hence the depths of the
\* queued entries never decrease from front to back, every queued entry is
\* at the depth of the URL last taken up or one deeper, and the depth of the
\* URLs taken up never decreases: breadth-first order.
C16_BreadthFirst ==
    /\ [](/\ Len(depth) = Len(to_visit)
          /\ \A i, j \in 1..Len(depth) : i <= j => depth[i] <= depth[j]
          /\ \A i \in 1..Len(depth) :
                cur_depth <= depth[i] /\ depth[i] <= cur_depth + 1)
    /\ [][run' = run =>
            /\ \/ to_visit' = to_visit
               \/ to_visit # <<>> /\ to_visit' = Tail(to_visit)
               \/ /\ Len(to_visit') > Len(to_visit)
                  /\ SubSeq(to_visit', 1, Len(to_visit)) = to_visit
            /\ (pc = "drain" /\ visited_urls' # visited_urls) =>
                  /\ visited_urls' = visited_urls \cup {Head(to_visit)}
                  /\ to_visit' = Tail(to_visit)
                  /\ cur_depth' = Head(depth)
                  /\ cur_depth' >= cur_depth]_vars

\* C16 witness: the loop has taken up a URL of depth 2, found while a page
\* of depth 1 was processed, and entries wait behind it
C16_Witness ==
    /\ pc \in {"links", "iter_end"}
    /\ cur_depth = 2
    /\ to_visit # <<>>
    /\ current_url \in RecordUrls

\* C17: in the draining pass no HTTP request is made for a URL that is in
\* failed, and no entry of the frontier appended by the pass is in failed
\* at the time it is appended.
C17_FailedLeftAlone ==
    [][/\ (pc' = "http" /\ call' \in {"scrape", "links"}) => current_url' \notin failed_urls'
       /\ (pc \in {"links", "http"} /\ call # "seed" /\ Len(to_visit') > Len(to_visit)) =>
             \A i \in (Len(to_visit) + 1)..Len(to_visit') : to_visit'[i] \notin failed_urls']_vars

\* C18: in a fresh crawl with a page cap, the draining loop never counts
\* more than max_pages scraped pages, and when scrape_all returns the list
\* it returns (all_regulations itself) holds at most max_pages records.
C18_PageCap ==
    (visited_at_start = {} /\ max_pages # None) =>
        /\ scraped_count <= max_pages
        /\ pc = "done" => Len(all_regulations) <= max_pages

\* the URL contains '/title-', contains '-NYCRR-', contains one of the
\* other patterns of classify_url
HasTitle(url) == Contains(url, <<"/", "title", "-">>)
HasNycrr(url) == Contains(url, <<"-", "NYCRR", "-">>)
HasOtherPattern(url) ==
    \/ Contains(url, <<"/", "chapter", "-">>)
    \/ Contains(url, <<"/", "part", "-">>)
    \/ Contains(url, <<"/", "section", "-">>)
    \/ Contains(url, <<"/", "app", "-">>)
    \/ Contains(url, <<"/", "appendix">>)

\* C19 as stated: classify_url gives regulation for every URL containing
\* '-NYCRR-', title for every URL containing '/title-', and unknown for
\* every URL containing neither.
C19_ClassifyAsStated ==
    out.op = "classify_url" =>
        /\ HasNycrr(text) => out.type = "regulation"
        /\ HasTitle(text) => out.type = "title"
        /\ (~HasNycrr(text) /\ ~HasTitle(text)) => out.type = "unknown"

\* C19 amended: classify_url gives title for every URL containing
\* '/title-', regulation for every URL containing '-NYCRR-' and not
\* '/title-', unknown for every URL containing none of its patterns, and
\* chapter, part, section or appendix for the others.
C19_ClassifyFirstMatch ==
    out.op = "classify_url" =>
        /\ HasTitle(text) => out.type = "title"
        /\ (HasNycrr(text) /\ ~HasTitle(text)) => out.type = "regulation"
        /\ (~HasNycrr(text) /\ ~HasTitle(text) /\ ~HasOtherPattern(text))
              => out.type = "unknown"
        /\ (~HasNycrr(text) /\ ~HasTitle(text) /\ HasOtherPattern(text))
              => out.type \in {"chapter", "part", "section", "appendix"}

\* C19 witness: classify_url was applied to a URL that contains '/title-'
\* and '-NYCRR-'
C19_Witness ==
    /\ out.op = "classify_url"
    /\ HasTitle(text) /\ HasNycrr(text)
    /\ out.type = "title"

\* the link types of find_regulation_links do not tell chapter, part and
\* section apart
Coarse(type) ==
    IF type \in {"chapter", "part", "section"} THEN "subsection" ELSE type

C21_CacheWriteFailureNonFatal ==
    [][(pc = "http" /\ net' = current_url
           /\ (cache' # cache \/ last_page'.source = "net")) =>
          /\ last_page' = [url |-> current_url, html |-> Html(current_url),
                           source |-> "net"]
          /\ pc' # "http"
          /\ failed_urls' = failed_urls
          /\ cache'[current_url] \in
                {CacheRecord(current_url, Html(current_url)), CorruptRecord,
                 cache[current_url]}
          /\ call = "scrape" =>
                /\ pc' = "links"
                /\ all_regulations' =
                      Append(all_regulations,
                             [url |-> current_url, content |-> Html(current_url)])]_vars

\* C21 witness: the first get_page of an iteration fetched the page, its
\* cache write was cut short, and the record was built
C21_Witness ==
    /\ pc = "links"
    /\ last_page = [url |-> current_url, html |-> Html(current_url), source |-> "net"]
    /\ cache[current_url] = CorruptRecord
    /\ current_url \in RecordUrls
    /\ current_url \notin failed_urls

\* the step calls save_progress at the end of a draining iteration and the
\* write fails: progress.json is left as it was although a write would
\* have changed it
SaveFailedInLoop ==
    /\ pc = "iter_end" /\ save_due(scraped_count)
    /\ last_save' = scraped_count /\ last_save # scraped_count
    /\ progress_file' = progress_file
    /\ progress_file # saved_progress_file(Mem, "ok")

\* C22: a failed save_progress leaves both files and the in-memory visited
\* set, failed set, result list and frontier as they were, and the loop
\* goes on: the iteration ends with its sleep and the process is at the
\* head of the loop.
C22_SaveFailureNonFatal ==
    [][SaveFailedInLoop =>
          /\ pc' = "drain" /\ slept' = 500
          /\ failed_file' = failed_file
          /\ visited_urls' = visited_urls
          /\ failed_urls' = failed_urls
          /\ all_regulations' = all_regulations
          /\ to_visit' = to_visit
          /\ scraped_count' = scraped_count]_vars

\* C22 witness: the first process is at the head of the loop after an
\* iteration whose save_progress failed, with URLs queued
C22_Witness ==
    /\ run = 1 /\ pc = "drain" /\ slept = 500
    /\ last_save = scraped_count
    /\ ~progress_file.exists
    /\ visited_urls # {}
    /\ LoopCond

\* the step calls save_progress (at the end of an iteration or after the
\* loop) and both writes succeed
SaveSucceeded ==
    /\ \/ pc = "iter_end" /\ save_due(scraped_count) /\ pc' = "drain"
       \/ pc = "drain" /\ ~LoopCond /\ pc' \in {"retry", "done"}
    /\ progress_file' = saved_progress_file(Mem, "ok")
    /\ failed_file' = saved_failed_file(Mem, "ok")

\* C23: after a successful save_progress, what load_progress reads from the
\* files is the visited set and the failed set the scraper held when it
\* saved.
C23_SaveLoadRoundTrip ==
    [][SaveSucceeded =>
          /\ load_visited' = visited_urls
          /\ load_failed' = failed_urls]_vars

\* C23 witness: a later scraper was started from files that a save of the
\* process before it wrote with a failed set that is not empty
C23_Witness ==
    /\ run > 1 /\ pc = "new"
    /\ failed_file.exists /\ progress_file.exists
    /\ visited_urls = load_visited /\ failed_urls = load_failed
    /\ failed_urls # {}
    /\ \E u \in visited_urls : u \notin failed_urls

\* C24: a readable cache record is never rewritten or removed, by any step
\* of any process, and a get_page call for its URL returns the markup of
\* the record.
C24_CacheRecordImmutable ==
    [][\A u \in Urls :
         CacheReadable(u) =>
            /\ cache'[u] = cache[u]
            /\ (GetPageCalled(u) /\ pc' # "exited") =>
                  /\ last_page'.url = u
                  /\ last_page'.html = cache[u].html
                  /\ last_page'.source = "cache"]_vars

\* C24 witness: in a later run the retrying phase got a page from the
\* record an earlier run wrote
C24_Witness ==
    /\ run > 1 /\ pc = "retry"
    /\ last_page.source = "cache"
    /\ cache[last_page.url] = CacheRecord(last_page.url, last_page.html)
    /\ last_page.url \in visited_at_start

\* C25: while an HTTP request of get_page is in progress, the only step the
\* process takes is the end of that request, with its normal outcome; the
\* process does not exit from there.
C25_FetchRunsToCompletion ==
    [][pc = "http" => (net' = current_url /\ pc' # "exited")]_vars

\* C26: every candidate of find_regulation_links, which is what enters the
\* frontier and is tested against visited and failed, is a canonical URL:
\* absolute and without a fragment, so that two links to one page give one
\* URL.
C26_CandidatesCanonical ==
    out.op = "find_regulation_links" =>
        \A i \in 1..Len(out.links) :
            /\ out.links[i].url[1] = SiteOrigin
            /\ ~Contains(out.links[i].url, <<"#">>)


\* the step in which scrape_all calls crawl_recursively
EntersCrawl ==
    /\ pc = "new" \/ (pc = "http" /\ call = "seed")
    /\ pc' = "drain"

InFlight == {i \in 1..Len(tasks) : tasks[i] = "running"}

\* C28: at most batch_size analyze_regulation calls are in flight at any
\* moment, and while a call of a batch has started, every call of the
\* batches before it has returned and its row is in results.
C28_BoundedWindow ==
    /\ Cardinality(InFlight) <= batch_size
    /\ Len(tasks) <= batch_size
    /\ (\E i \in 1..Len(tasks) : tasks[i] # "pending") =>
          /\ completed_count = batch_start
          /\ Len(results) = batch_start
          /\ batch_start % batch_size = 0

\* a full window of a later batch is in flight while input is left over
C28_Witness ==
    /\ batch_size > 1
    /\ batch_start > 0
    /\ Cardinality(InFlight) = batch_size
    /\ batch_start + batch_size < Len(regulations)

\* C29: when a batch ends in which the number of completed analyses has
\* passed a multiple of 5, the rows so far are written to the output CSV;
\* when the last batch ends, all rows are written.
C29_SaveEveryFive ==
    [][(batch_pc = "gather" /\ batch_pc' = "loop") =>
          /\ completed_count' \div save_every > completed_count \div save_every =>
                output_file' = [exists |-> TRUE, rows |-> results']
          /\ batch_start' >= Len(regulations) =>
                output_file' = [exists |-> TRUE, rows |-> results']]_vars


\* C30: create_safe_filename returns different names in different
\* iterations of main, whatever the URLs are, and when main ends without a
\* failed write the output directory holds as many files as the master file
\* has regulations.
C30_OneFilePerRegulation ==
    /\ \A i, j \in 1..Len(names) : i # j => names[i] # names[j]
    /\ (fix_pc = "done" /\ failed_count = 0) =>
          /\ Cardinality(output_dir) = Len(master)
          /\ created_count = Len(master)

\* main ended without a failure on a master file whose two regulations have
\* the same URL, which ends in '/'
C30_Witness ==
    /\ fix_pc = "done" /\ failed_count = 0
    /\ Len(master) > 1
    /\ master[1] = master[2]
    /\ master[1] # <<>> /\ master[1][Len(master[1])] = "/"
    /\ Cardinality(output_dir) = Len(master)


\* the loop of crawl_recursively takes the head of the frontier up: it
\* marks it visited and calls get_page for it
TakenUp == pc = "drain" /\ pc' \in {"http", "links"}

\* C31: a process reaches the end of scrape_all unless a signal stops it,
\* whatever the outcome of each fetch, and the loop takes up no URL that is
\* already visited, however often it was enqueued.
C31_Termination ==
    /\ [][TakenUp => /\ Head(to_visit) \notin visited_urls
                     /\ visited_urls' = visited_urls \cup {Head(to_visit)}
                     /\ current_url' = Head(to_visit)]_vars
    /\ (pc = "new") ~> (pc \in {"done", "exited"})

\* scrape_all returned after a crawl whose frontier held a URL twice and
\* in which fetches failed
C31_Witness ==
    /\ pc = "done" /\ run = 1 /\ max_pages = None
    /\ failed_urls # {}
    /\ \E u \in visited_urls : Cardinality({i \in 1..Len(Anchors(base_url)) : Anchors(base_url)[i] = u}) > 1


\* C32: when scrape_all returns, no URL of failed_urls is the URL of a
\* record of all_regulations.
C32_FailedNotInOutput ==
    pc = "done" => failed_urls \cap RecordUrls = {}

\* C33: at the head of the loop of crawl_recursively and when scrape_all
\* returns, the URL of every record of all_regulations is in visited_urls.
C33_RecordsAreVisited ==
    pc \in {"drain", "done"} => RecordUrls \subseteq visited_urls


\* the process is in retry_failed_urls
InRetry == pc = "retry" \/ (pc = "http" /\ call = "retry")

\* C34: retry_failed_urls iterates over the URLs that are in failed_urls
\* when it starts; its steps send HTTP requests to those URLs only, leave the
\* frontier as it is, call get_page from no other call site, and change the
\* visited status of no other URL.
C34_RetryFrame ==
    [][/\ (pc = "drain" /\ pc' = "retry") => failed_copy' = failed_urls
       /\ InRetry =>
            /\ net' # None => net' \in failed_copy
            /\ to_visit' = to_visit
            /\ call' \in {"none", "retry"}
            /\ failed_copy' = failed_copy
            /\ \A u \in Urls \ failed_copy :
                  (u \in visited_urls') = (u \in visited_urls)]_vars

\* the retry of a URL whose page has links succeeded over the network, and
\* the frontier it was left with by the loop is unchanged
C34_Witness ==
    /\ pc = "retry"
    /\ last_page.source = "net"
    /\ last_page.url \in failed_copy \cap RecordUrls
    /\ Anchors(last_page.url) # <<>>
    /\ to_visit # <<>>
    /\ \E u \in Urls \ failed_copy : u \in visited_urls


\* C35: analyze_regulations_batch does not end with an exception, and when
\* it returns, results holds one row per input regulation, in input order.
C35_OneRowPerRegulation ==
    /\ batch_pc # "raised"
    /\ batch_pc = "returned" =>
          /\ Len(results) = Len(regulations)
          /\ \A i \in 1..Len(results) : results[i].source_index = regulations[i]


\* C36: a step is called only after the step before it ended with a truthy
\* result, run_full_pipeline returns True only after all three steps did,
\* and when the pipeline has returned or exited the caffeinate child is not
\* running.
C36_PipelineOrderAndCleanup ==
    /\ \A k \in 2..Len(step_log) : step_log[k - 1] = "ok"
    /\ returned = "True" => step_log = [k \in 1..LastStep |-> "ok"]
    /\ pl_pc \in {"returned", "exited"} => child # "running"

====
